---------------------------- MODULE Spec2Model ----------------------------
(***************************************************************************)
(* HX711 load-cell amplifier driver (src/.c): the bit-banged raw read,     *)
(* the retrying read with power-cycle recovery, chip initialisation and    *)
(* the periodic sampling callback that forwards samples to the GATT        *)
(* notification layer.                                                     *)
(*                                                                         *)
(* The program is single threaded: `pc' is the statement about to execute  *)
(* and `stack' holds the return labels of the active calls.  The data line *)
(* (DOUT) and the connection state are inputs of the environment.          *)
(***************************************************************************)
EXTENDS Integers, Sequences, FiniteSets, TLC

(***************************************************************************)
(* Bounds of the model.                                                    *)
(***************************************************************************)
\* Ready-poll budget.  The source sets 50000 (src/.c:24); the model scales
\* the budget down, every statement about it is relative to this name.
HX711_TIMEOUT_COUNT == 3

\* Largest max_retries the direct caller of hx711_read_with_retry passes.
MaxRetries == 4

\* Longest run of consecutive failed cycles the history variables count;
\* a longer run is recorded as MaxFailRun + 1 ("more than MaxFailRun").
MaxFailRun == 10

(***************************************************************************)
(* Program constants.                                                      *)
(***************************************************************************)
INT32_MIN == -2147483647 - 1

INT32_MAX == 2147483647

\* for (i = 0; i < 24; i++)
DataBits == 24

\* static uint8_t max_consecutive_errors = 5;
max_consecutive_errors == 5

\* hx711_read_with_retry(3)
RetryBudget == 3

EASY_TIMER_INVALID_TIMER == "EASY_TIMER_INVALID_TIMER"

\* The handle app_easy_timer returns for the one timer this program runs.
TimerHandle == "timer"

\* Conversion results the chip presents (signed 24-bit values): both ends of
\* the range, -1 (all ones), 0 and 0x123456.
SampleValues == {-8388608, -1, 0, 1193046, 8388607}

\* What an uninitialised int32_t may hold when it is read.
UninitValues == {INT32_MIN, INT32_MAX, 0, -1}

(***************************************************************************)
(* 32-bit integer arithmetic.  An int32_t is the integer it denotes; its   *)
(* bit pattern is handled as two 16-bit halves (two's complement).         *)
(***************************************************************************)
Hi(v) == (v \div 65536) % 65536

Lo(v) == v % 65536

FromHalves(hi, lo) == (IF hi >= 32768 THEN hi - 65536 ELSE hi) * 65536 + lo

RECURSIVE BitAnd(_, _)
BitAnd(a, b) ==
    IF a = 0 \/ b = 0 THEN 0
    ELSE (IF a % 2 = 1 /\ b % 2 = 1 THEN 1 ELSE 0) + 2 * BitAnd(a \div 2, b \div 2)

RECURSIVE BitOr(_, _)
BitOr(a, b) ==
    IF a = 0 THEN b
    ELSE IF b = 0 THEN a
    ELSE (IF a % 2 = 1 \/ b % 2 = 1 THEN 1 ELSE 0) + 2 * BitOr(a \div 2, b \div 2)

ShiftLeft1_None(v) == v

\* value <<= 1
ShiftLeft1(v) ==
    FromHalves((Hi(v) * 2 + Lo(v) \div 32768) % 65536, (Lo(v) * 2) % 65536)

\* value |= 1
OrOne(v) == FromHalves(Hi(v), BitOr(Lo(v), 1))

SignExtend_NoExtension(v) == v

\* if (value & 0x800000) value |= 0xFF000000;
\* 0x800000 is bit 7 of the high half, 0xFF000000 the high half's top byte.
SignExtend(v) ==
    IF BitAnd(Hi(v), 128) # 0 \/ BitAnd(Lo(v), 0) # 0
    THEN FromHalves(BitOr(Hi(v), 65280), BitOr(Lo(v), 0))
    ELSE v

\* The four bytes of an int32_t, most significant first.
Bytes(v) == << Hi(v) \div 256, Hi(v) % 256, Lo(v) \div 256, Lo(v) % 256 >>

Bswap32_Omitted(b) == b

\* __builtin_bswap32, on the bytes (most significant first)
Bswap32(b) == << b[4], b[3], b[2], b[1] >>

\* memcpy of a uint32_t on the little-endian target: lowest byte first.
MemBytes(b) == << b[4], b[3], b[2], b[1] >>

(***************************************************************************)
(* The chip.  Once ready it shifts its conversion result out MSB first,    *)
(* one bit per rising clock edge; after the 24 data bits DOUT returns high.*)
(***************************************************************************)
Encode24(x) == x % (2^24)

DataBit(x, n) ==
    IF n = 0 THEN 0
    ELSE IF n > DataBits THEN 1
    ELSE (Encode24(x) \div (2^(DataBits - n))) % 2

(***************************************************************************)
(* State.                                                                  *)
(***************************************************************************)
VARIABLES
    pc,                 \* statement about to execute
    stack,              \* return labels of the active calls
    sck,                \* level of the clock line (HX711_SCK)
    chipx,              \* conversion result the chip is shifting out
    value,              \* hx711_read_improved: value
    i,                  \* hx711_read_improved: i
    timeout,            \* hx711_read_improved: timeout
    rd_ret,             \* hx711_read_improved: value being returned
    pulses,             \* history: rising clock edges of this raw read
    allHigh,            \* history: every poll of the current ready-wait saw DOUT high
    waits,              \* history: decrement-and-wait iterations of the current ready-wait
    samples,            \* history: the levels this raw read sampled for its data bits
    commWarn,           \* history: DOUT was still low at this raw read's final check
    init_timeout,       \* hx711_init: timeout
    max_retries,        \* hx711_read_with_retry: max_retries
    retry_count,        \* hx711_read_with_retry: retry_count
    result,             \* hx711_read_with_retry: result
    resultInit,         \* whether result has been assigned
    events,             \* history: what this hx711_read_with_retry call has done
    hx_val,             \* callback: hx_val (the direct caller's result too)
    consecutive_errors, \* callback: static consecutive_errors
    adc_timer,          \* callback: static adc_timer
    adc_val_1,          \* process-wide last sample
    req,                \* callback: the notification message
    conn,               \* ke_state_get(TASK_APP) == APP_CONNECTED
    pending,            \* timer service: callbacks scheduled and not yet run
    started,            \* the application has started the sampling timer
    att_db,             \* attribute store: value of SVC1_IDX_ADC_VAL_1_VAL
    sent,               \* history: notifications sent by this invocation
    nResched,           \* history: app_easy_timer calls of this invocation
    initCalled,         \* history: this invocation called hx711_init
    lastCycle,          \* history: outcome of the current or last invocation
    errsBefore,         \* history: consecutive_errors when the invocation began
    connSeen,           \* history: what ke_state_get told this invocation
    failRun,            \* history: consecutive failed cycles since the last success
    runInits,           \* history: reinitialisations since the last success
    sinceReset,         \* history: failed cycles since the last success or reinitialise
    effects,            \* history: what this invocation did to the outside, in order
    adcBefore           \* history: adc_val_1 when the invocation began

ctlVars == <<pc, stack>>

hwVars == <<sck, chipx>>

rdHist == <<waits, samples, commWarn>>

rdVars == <<value, i, timeout, rd_ret, pulses, allHigh, rdHist>>

rtVars == <<max_retries, retry_count, result, resultInit, events>>

cbVars == <<hx_val, consecutive_errors, adc_timer, adc_val_1, req>>

extVars == <<conn, pending, started, att_db, sent>>

cbHist == <<effects, adcBefore>>

cycleHist == <<nResched, initCalled, lastCycle, errsBefore, connSeen, failRun,
               runInits, sinceReset>>

histVars == <<cycleHist, cbHist>>

vars == <<ctlVars, hwVars, rdVars, rtVars, init_timeout, cbVars, extVars, histVars>>

Ev(e, v) == [e |-> e, v |-> v]

Min(a, b) == IF a < b THEN a ELSE b

\* State common to every start of the program.
InitCommon ==
    /\ stack = <<>>
    /\ sck \in {0, 1}
    /\ chipx = 0
    /\ value = 0 /\ i = 0 /\ timeout = 0 /\ rd_ret = 0
    /\ pulses = 0 /\ allHigh = TRUE
    /\ waits = 0 /\ samples = <<>> /\ commWarn = FALSE
    /\ init_timeout = 0
    /\ retry_count = 0 /\ result = 0 /\ resultInit = FALSE
    /\ events = <<>>
    /\ hx_val = 0
    /\ consecutive_errors = 0
    /\ adc_timer = EASY_TIMER_INVALID_TIMER
    /\ adc_val_1 = 0
    /\ req = [st |-> "none", value |-> <<>>]
    /\ conn = TRUE
    /\ pending = 0
    /\ started = FALSE
    /\ att_db = <<0, 0, 0, 0>>
    /\ sent = <<>>
    /\ nResched = 0 /\ initCalled = FALSE
    /\ lastCycle = "none" /\ errsBefore = 0 /\ connSeen = "unread"
    /\ failRun = 0 /\ runInits = 0 /\ sinceReset = 0
    /\ effects = <<>> /\ adcBefore = 0

\* The firmware boots into user_app_init.
Init ==
    /\ InitCommon
    /\ pc = "boot"
    /\ max_retries = 0

\* A direct call hx711_read_with_retry(N), for every N up to MaxRetries.
InitRetry ==
    /\ InitCommon
    /\ pc = "harness_call"
    /\ max_retries \in 0..MaxRetries

(***************************************************************************)
(* hx711_power_up, hx711_power_down: the level each leaves on the clock    *)
(* line (the delays take time and change nothing else).                    *)
(***************************************************************************)
\* GPIO_SetInactive drives a line low, GPIO_SetActive drives it high.
Low == 0

High == 1

hx711_power_up_LeavesHigh == High

\* GPIO_SetInactive(SCK); arch_asm_delay_us(100 ms)
hx711_power_up == Low

hx711_power_down_DrivesLow == Low

\* GPIO_SetActive(SCK); arch_asm_delay_us(60)
hx711_power_down == High

(***************************************************************************)
(* hx711_init                                                              *)
(***************************************************************************)
\* GPIO_SetInactive(SCK); hx711_power_up(); timeout = HX711_TIMEOUT_COUNT
InitEntry ==
    /\ pc = "init_entry"
    /\ sck' = hx711_power_up
    /\ init_timeout' = HX711_TIMEOUT_COUNT
    /\ pc' = "init_wait"
    /\ allHigh' = TRUE
    /\ waits' = 0
    /\ UNCHANGED <<stack, chipx, value, i, timeout, rd_ret, pulses, samples, commWarn,
                   rtVars, cbVars, extVars, histVars>>

\* while (!hx711_is_ready() && timeout > 0) { delay; timeout--; }
InitPoll ==
    /\ pc = "init_wait"
    /\ \E lvl \in {0, 1} :
         IF lvl = 1 /\ init_timeout > 0
         THEN /\ init_timeout' = init_timeout - 1
              /\ waits' = waits + 1
              /\ allHigh' = allHigh
              /\ pc' = "init_wait"
         ELSE /\ init_timeout' = init_timeout
              /\ waits' = waits
              /\ allHigh' = (allHigh /\ lvl = 1)
              /\ pc' = "init_ret"
    /\ UNCHANGED <<stack, hwVars, value, i, timeout, rd_ret, pulses, samples, commWarn,
                   rtVars, cbVars, extVars, histVars>>

\* The debug check of timeout has no effect; the function returns.
InitReturn ==
    /\ pc = "init_ret"
    /\ pc' = Head(stack)
    /\ stack' = Tail(stack)
    /\ init_timeout' = 0
    /\ allHigh' = TRUE
    /\ waits' = 0
    /\ UNCHANGED <<hwVars, value, i, timeout, rd_ret, pulses, samples, commWarn,
                   rtVars, cbVars, extVars, histVars>>

InitActions == InitEntry \/ InitPoll \/ InitReturn

(***************************************************************************)
(* hx711_read_improved                                                     *)
(***************************************************************************)
\* value = 0; timeout = HX711_TIMEOUT_COUNT; GPIO_SetInactive(SCK); settle
ReadEntry ==
    /\ pc = "rd_entry"
    /\ value' = 0
    /\ i' = 0
    /\ timeout' = HX711_TIMEOUT_COUNT
    /\ sck' = 0
    /\ pulses' = 0
    /\ allHigh' = TRUE
    /\ waits' = 0
    /\ samples' = <<>>
    /\ commWarn' = FALSE
    /\ pc' = "rd_wait"
    /\ UNCHANGED <<stack, chipx, rd_ret, rtVars, init_timeout, cbVars, extVars, histVars>>

PollNext_BreakOnTimeout(lvl, t) ==
    IF lvl = 1 /\ t # 0 THEN "rd_wait" ELSE "rd_bit_high"

PollNext_OneShort(lvl, t) ==
    IF lvl = 1
    THEN IF t <= 1 THEN "rd_timeout" ELSE "rd_wait"
    ELSE "rd_bit_high"

\* Where one evaluation of the ready-wait's condition leads: DOUT high with the
\* budget used up returns the timeout, DOUT high otherwise polls again, DOUT
\* low leaves the loop.
PollNext(lvl, t) ==
    IF lvl = 1
    THEN IF t = 0 THEN "rd_timeout" ELSE "rd_wait"
    ELSE "rd_bit_high"

\* while (GPIO_GetPinStatus(DOUT)) { if (timeout == 0) return INT32_MIN;
\*                                   timeout--; delay }
ReadPoll ==
    /\ pc = "rd_wait"
    /\ \E lvl \in {0, 1} :
         /\ pc' = PollNext(lvl, timeout)
         /\ allHigh' = (allHigh /\ lvl = 1)
         /\ timeout' = IF PollNext(lvl, timeout) = "rd_wait"
                       THEN timeout - 1
                       ELSE timeout
         /\ waits' = IF PollNext(lvl, timeout) = "rd_wait"
                     THEN waits + 1
                     ELSE waits
         /\ IF lvl = 0
            THEN \E x \in SampleValues : chipx' = x
            ELSE chipx' = chipx
    /\ UNCHANGED <<stack, sck, value, i, rd_ret, pulses, samples, commWarn, rtVars,
                   init_timeout,
                   cbVars, extVars, histVars>>

\* return INT32_MIN;
ReadTimeout ==
    /\ pc = "rd_timeout"
    /\ rd_ret' = INT32_MIN
    /\ pc' = "rd_ret"
    /\ UNCHANGED <<stack, hwVars, value, i, timeout, pulses, allHigh, rdHist, rtVars,
                   init_timeout, cbVars, extVars, histVars>>

\* The loop test i < 24, then GPIO_SetActive(SCK); delay; value <<= 1;
\* when the loop is over, the 25th pulse's rising edge follows.
ReadBitHigh ==
    /\ pc = "rd_bit_high"
    /\ IF i < DataBits
       THEN /\ sck' = 1
            /\ pulses' = pulses + 1
            /\ value' = ShiftLeft1(value)
            /\ pc' = "rd_bit_low"
       ELSE /\ UNCHANGED <<sck, pulses, value>>
            /\ pc' = "rd_gain_high"
    /\ UNCHANGED <<stack, chipx, i, timeout, rd_ret, allHigh, rdHist, rtVars,
                   init_timeout, cbVars, extVars, histVars>>

\* GPIO_SetInactive(SCK); delay
ReadBitLow ==
    /\ pc = "rd_bit_low"
    /\ sck' = 0
    /\ pc' = "rd_bit_sample"
    /\ UNCHANGED <<stack, chipx, rdVars, rtVars, init_timeout, cbVars, extVars, histVars>>

\* if (GPIO_GetPinStatus(DOUT)) value |= 1;  i++
ReadBitSample ==
    /\ pc = "rd_bit_sample"
    /\ value' = IF DataBit(chipx, pulses) = 1 THEN OrOne(value) ELSE value
    /\ samples' = Append(samples, DataBit(chipx, pulses))
    /\ i' = i + 1
    /\ pc' = "rd_bit_high"
    /\ UNCHANGED <<stack, hwVars, timeout, rd_ret, pulses, allHigh, waits, commWarn, rtVars,
                   init_timeout, cbVars, extVars, histVars>>

\* 25th pulse: GPIO_SetActive(SCK); delay
ReadGainHigh ==
    /\ pc = "rd_gain_high"
    /\ sck' = 1
    /\ pulses' = pulses + 1
    /\ pc' = "rd_gain_low"
    /\ UNCHANGED <<stack, chipx, value, i, timeout, rd_ret, allHigh, rdHist, rtVars,
                   init_timeout, cbVars, extVars, histVars>>

\* GPIO_SetInactive(SCK); delay
ReadGainLow ==
    /\ pc = "rd_gain_low"
    /\ sck' = 0
    /\ pc' = "rd_verify"
    /\ UNCHANGED <<stack, chipx, rdVars, rtVars, init_timeout, cbVars, extVars, histVars>>

\* delay 10 us; if (!GPIO_GetPinStatus(DOUT)) { only a debug remark }
ReadVerify ==
    /\ pc = "rd_verify"
    /\ \E lvl \in {0, 1} : commWarn' = (lvl = 0)
    /\ pc' = "rd_sign"
    /\ UNCHANGED <<stack, hwVars, value, i, timeout, rd_ret, pulses, allHigh, waits,
                   samples, rtVars, init_timeout, cbVars, extVars, histVars>>

ReturnValue_CommError(warn, v) == IF warn THEN INT32_MAX ELSE v

\* What the raw read returns once the bits are in: the failed final check
\* leaves it alone ("we'll return the value anyway");  return value;
ReturnValue(warn, v) == v

\* if (value & 0x800000) value |= 0xFF000000;  return value;
ReadSignExtend ==
    /\ pc = "rd_sign"
    /\ value' = SignExtend(value)
    /\ rd_ret' = ReturnValue(commWarn, SignExtend(value))
    /\ pc' = "rd_ret"
    /\ UNCHANGED <<stack, hwVars, i, timeout, pulses, allHigh, rdHist, rtVars,
                   init_timeout, cbVars, extVars, histVars>>

\* The return to hx711_read_with_retry: result = hx711_read_improved();
ReadReturn ==
    /\ pc = "rd_ret"
    /\ result' = rd_ret
    /\ resultInit' = TRUE
    /\ events' = Append(events, Ev("read", rd_ret))
    /\ pc' = Head(stack)
    /\ stack' = Tail(stack)
    /\ value' = 0 /\ i' = 0 /\ timeout' = 0 /\ rd_ret' = 0
    /\ pulses' = 0 /\ allHigh' = TRUE
    /\ waits' = 0 /\ samples' = <<>> /\ commWarn' = FALSE
    /\ chipx' = 0
    /\ UNCHANGED <<sck, max_retries, retry_count, init_timeout, cbVars, extVars, histVars>>

ReadActions ==
    \/ ReadEntry \/ ReadPoll \/ ReadTimeout
    \/ ReadBitHigh \/ ReadBitLow \/ ReadBitSample
    \/ ReadGainHigh \/ ReadGainLow \/ ReadVerify
    \/ ReadSignExtend \/ ReadReturn

(***************************************************************************)
(* hx711_read_with_retry                                                   *)
(***************************************************************************)
\* int32_t result; uint8_t retry_count = 0;
RetryEntry ==
    /\ pc = "rt_entry"
    /\ retry_count' = 0
    /\ resultInit' = FALSE
    /\ events' = <<>>
    /\ pc' = "rt_loop"
    /\ UNCHANGED <<stack, hwVars, rdVars, max_retries, result, init_timeout,
                   cbVars, extVars, histVars>>

LoopCond_OffByOne(count, max) == count <= max

\* while (retry_count < max_retries)
LoopCond(count, max) == count < max

\* The loop test: another attempt calls hx711_read_improved, the end of the
\* loop returns result.
RetryLoop ==
    /\ pc = "rt_loop"
    /\ IF LoopCond(retry_count, max_retries)
       THEN /\ pc' = "rd_entry"
            /\ stack' = <<"rt_check">> \o stack
       ELSE /\ pc' = "rt_ret"
            /\ stack' = stack
    /\ UNCHANGED <<hwVars, rdVars, rtVars, init_timeout, cbVars, extVars, histVars>>

IsValid_PositiveOnly(r) == r > 0 /\ r # INT32_MAX

\* result != INT32_MIN && result != INT32_MAX
IsValid(r) == r # INT32_MIN /\ r # INT32_MAX

NeedsRecovery_Never(r) == FALSE

\* if (result == INT32_MIN)
NeedsRecovery(r) == r = INT32_MIN

\* if (valid) return result;  else if (result == INT32_MIN) recover
RetryCheck ==
    /\ pc = "rt_check"
    /\ pc' = IF IsValid(result) THEN "rt_ret"
             ELSE IF NeedsRecovery(result) THEN "rt_power_down"
             ELSE "rt_next"
    /\ UNCHANGED <<stack, hwVars, rdVars, rtVars, init_timeout, cbVars, extVars, histVars>>

\* hx711_power_down();
RetryPowerDown ==
    /\ pc = "rt_power_down"
    /\ sck' = hx711_power_down
    /\ events' = Append(events, Ev("power_down", hx711_power_down))
    /\ pc' = "rt_wait"
    /\ UNCHANGED <<stack, chipx, rdVars, max_retries, retry_count, result, resultInit,
                   init_timeout, cbVars, extVars, histVars>>

\* arch_asm_delay_us(1000);
RetryWait ==
    /\ pc = "rt_wait"
    /\ events' = Append(events, Ev("wait_1ms", 0))
    /\ pc' = "rt_power_up"
    /\ UNCHANGED <<stack, hwVars, rdVars, max_retries, retry_count, result, resultInit,
                   init_timeout, cbVars, extVars, histVars>>

\* hx711_power_up();
RetryPowerUp ==
    /\ pc = "rt_power_up"
    /\ sck' = hx711_power_up
    /\ events' = Append(events, Ev("power_up", hx711_power_up))
    /\ pc' = "rt_next"
    /\ UNCHANGED <<stack, chipx, rdVars, max_retries, retry_count, result, resultInit,
                   init_timeout, cbVars, extVars, histVars>>

RetryNext_NoIncrement ==
    /\ pc = "rt_next"
    /\ retry_count' = retry_count
    /\ events' = Append(events, Ev("delay_10ms", 0))
    /\ pc' = "rt_loop"
    /\ UNCHANGED <<stack, hwVars, rdVars, max_retries, result, resultInit,
                   init_timeout, cbVars, extVars, histVars>>

\* retry_count++;  arch_asm_delay_us(10000);
RetryNext ==
    /\ pc = "rt_next"
    /\ retry_count' = (retry_count + 1) % 256
    /\ events' = Append(events, Ev("delay_10ms", 0))
    /\ pc' = "rt_loop"
    /\ UNCHANGED <<stack, hwVars, rdVars, max_retries, result, resultInit,
                   init_timeout, cbVars, extVars, histVars>>

\* return result;  An unassigned result is whatever the stack held.
RetryReturn ==
    /\ pc = "rt_ret"
    /\ IF resultInit
       THEN hx_val' = result
       ELSE hx_val' \in UninitValues
    /\ pc' = Head(stack)
    /\ stack' = Tail(stack)
    /\ retry_count' = 0
    /\ result' = 0
    /\ resultInit' = FALSE
    /\ UNCHANGED <<hwVars, rdVars, max_retries, events, init_timeout,
                   consecutive_errors, adc_timer, adc_val_1, req, extVars, histVars>>

RetryActions ==
    \/ RetryEntry \/ RetryLoop \/ RetryCheck
    \/ RetryPowerDown \/ RetryWait \/ RetryPowerUp
    \/ RetryNext \/ RetryReturn

\* The direct caller: hx_val = hx711_read_with_retry(max_retries)
HarnessCall ==
    /\ pc = "harness_call"
    /\ pc' = "rt_entry"
    /\ stack' = <<"harness_done">>
    /\ UNCHANGED <<hwVars, rdVars, rtVars, init_timeout, cbVars, extVars, histVars>>

(***************************************************************************)
(* user_app_init                                                           *)
(***************************************************************************)
\* hx711_init();
AppInit ==
    /\ pc = "boot"
    /\ pc' = "init_entry"
    /\ stack' = <<"boot_done">>
    /\ UNCHANGED <<hwVars, rdVars, rtVars, init_timeout, cbVars, extVars, histVars>>

\* default_app_on_init();
AppInitDone ==
    /\ pc = "boot_done"
    /\ pc' = "idle"
    /\ UNCHANGED <<stack, hwVars, rdVars, rtVars, init_timeout, cbVars, extVars, histVars>>

(***************************************************************************)
(* The environment: the application starts the sampling timer once, the    *)
(* timer service runs a scheduled callback when the processor is idle, and *)
(* the connection comes and goes.                                          *)
(***************************************************************************)
StartSampling ==
    /\ pc = "idle"
    /\ ~started
    /\ started' = TRUE
    /\ pending' = pending + 1
    /\ UNCHANGED <<ctlVars, hwVars, rdVars, rtVars, init_timeout, cbVars,
                   conn, att_db, sent, histVars>>

TimerFire ==
    /\ pc = "idle"
    /\ pending > 0
    /\ pending' = pending - 1
    /\ pc' = "cb_alloc"
    /\ nResched' = 0
    /\ initCalled' = FALSE
    /\ errsBefore' = consecutive_errors
    /\ lastCycle' = "running"
    /\ connSeen' = "unread"
    /\ effects' = <<>>
    /\ adcBefore' = adc_val_1
    /\ UNCHANGED <<stack, hwVars, rdVars, rtVars, init_timeout, cbVars,
                   conn, started, att_db, sent, failRun, runInits, sinceReset>>

Disconnect ==
    /\ conn
    /\ conn' = FALSE
    /\ UNCHANGED <<ctlVars, hwVars, rdVars, rtVars, init_timeout, cbVars,
                   pending, started, att_db, sent, histVars>>

Connect ==
    /\ ~conn
    /\ conn' = TRUE
    /\ UNCHANGED <<ctlVars, hwVars, rdVars, rtVars, init_timeout, cbVars,
                   pending, started, att_db, sent, histVars>>

(***************************************************************************)
(* app_adcval1_timer_cb_handler_improved                                   *)
(***************************************************************************)
\* req = KE_MSG_ALLOC_DYN(...)
CbAlloc ==
    /\ pc = "cb_alloc"
    /\ req' = [st |-> "allocated", value |-> <<>>]
    /\ effects' = Append(effects, Ev("alloc", <<>>))
    /\ pc' = "cb_call"
    /\ UNCHANGED <<stack, hwVars, rdVars, rtVars, init_timeout, hx_val,
                   consecutive_errors, adc_timer, adc_val_1, extVars, cycleHist, adcBefore>>

\* hx_val = hx711_read_with_retry(3);
CbCallRetry ==
    /\ pc = "cb_call"
    /\ max_retries' = RetryBudget
    /\ pc' = "rt_entry"
    /\ stack' = <<"cb_check">> \o stack
    /\ UNCHANGED <<hwVars, rdVars, retry_count, result, resultInit, events,
                   init_timeout, cbVars, extVars, histVars>>

\* if (hx_val == INT32_MIN || hx_val == INT32_MAX)
CbCheck ==
    /\ pc = "cb_check"
    /\ IF hx_val = INT32_MIN \/ hx_val = INT32_MAX
       THEN /\ pc' = "cb_error"
            /\ lastCycle' = "failure"
            /\ failRun' = Min(failRun + 1, MaxFailRun + 1)
            /\ sinceReset' = Min(sinceReset + 1, MaxFailRun + 1)
            /\ runInits' = IF failRun >= MaxFailRun THEN 0 ELSE runInits
       ELSE /\ pc' = "cb_success"
            /\ lastCycle' = "success"
            /\ failRun' = 0
            /\ sinceReset' = 0
            /\ runInits' = 0
    /\ UNCHANGED <<stack, hwVars, rdVars, rtVars, init_timeout, cbVars, extVars,
                   nResched, initCalled, errsBefore, connSeen, cbHist>>

ThresholdReached_Strict(c) == c > max_consecutive_errors

\* consecutive_errors >= max_consecutive_errors
ThresholdReached(c) == c >= max_consecutive_errors

\* consecutive_errors++;  if (threshold reached) hx711_init();
CbError ==
    /\ pc = "cb_error"
    /\ consecutive_errors' = (consecutive_errors + 1) % 256
    /\ IF ThresholdReached((consecutive_errors + 1) % 256)
       THEN /\ pc' = "init_entry"
            /\ stack' = <<"cb_reset">> \o stack
            /\ initCalled' = TRUE
            /\ runInits' = IF failRun > MaxFailRun THEN 0 ELSE runInits + 1
            /\ effects' = Append(effects, Ev("init", <<>>))
       ELSE /\ pc' = "cb_free"
            /\ UNCHANGED <<stack, initCalled, runInits, effects>>
    /\ UNCHANGED <<hwVars, rdVars, rtVars, init_timeout, hx_val, adc_timer,
                   adc_val_1, req, extVars, nResched, lastCycle, errsBefore,
                   connSeen, failRun, sinceReset, adcBefore>>

\* consecutive_errors = 0;   (after hx711_init returns)
CbReset ==
    /\ pc = "cb_reset"
    /\ consecutive_errors' = 0
    /\ pc' = "cb_free"
    /\ UNCHANGED <<stack, hwVars, rdVars, rtVars, init_timeout, hx_val, adc_timer,
                   adc_val_1, req, extVars, histVars>>

CbFree_Leak ==
    /\ pc = "cb_free"
    /\ UNCHANGED <<req, effects>>
    /\ pc' = "cb_error_resched"
    /\ UNCHANGED <<stack, hwVars, rdVars, rtVars, init_timeout, hx_val,
                   consecutive_errors, adc_timer, adc_val_1, extVars, cycleHist, adcBefore>>

\* KE_MSG_FREE(req);
CbFree ==
    /\ pc = "cb_free"
    /\ req' = [req EXCEPT !.st = "freed"]
    /\ effects' = Append(effects, Ev("free", <<>>))
    /\ pc' = "cb_error_resched"
    /\ UNCHANGED <<stack, hwVars, rdVars, rtVars, init_timeout, hx_val,
                   consecutive_errors, adc_timer, adc_val_1, extVars, cycleHist, adcBefore>>

\* adc_timer = app_easy_timer(APP_PERIPHERAL_CTRL_TIMER_DELAY, callback);
Reschedule ==
    /\ adc_timer' = TimerHandle
    /\ pending' = pending + 1
    /\ nResched' = nResched + 1

ErrorReschedules_Never(connected) == FALSE

\* if (ke_state_get(TASK_APP) == APP_CONNECTED)     (the failure path)
ErrorReschedules(connected) == connected

\* The failure path's end: reschedule when connected; return.
CbErrorResched ==
    /\ pc = "cb_error_resched"
    /\ connSeen' = IF conn THEN "connected" ELSE "disconnected"
    /\ IF ErrorReschedules(conn)
       THEN Reschedule
       ELSE UNCHANGED <<adc_timer, pending, nResched>>
    /\ pc' = "cb_ret"
    /\ UNCHANGED <<stack, hwVars, rdVars, rtVars, init_timeout, hx_val,
                   consecutive_errors, adc_val_1, req, conn, started, att_db, sent,
                   initCalled, lastCycle, errsBefore, failRun, runInits, sinceReset, cbHist>>

CounterAfterSuccess_Kept(c) == c

\* consecutive_errors = 0;
CounterAfterSuccess(c) == 0

\* consecutive_errors = 0;  adc_val_1 = hx_val;
CbSuccess ==
    /\ pc = "cb_success"
    /\ consecutive_errors' = CounterAfterSuccess(consecutive_errors)
    /\ adc_val_1' = hx_val
    /\ pc' = "cb_prepare"
    /\ UNCHANGED <<stack, hwVars, rdVars, rtVars, init_timeout, hx_val, adc_timer,
                   req, extVars, histVars>>

\* big_endian_val = __builtin_bswap32(adc_val_1), as the bytes memcpy copies
BigEndianBytes(v) == MemBytes(Bswap32(Bytes(v)))

\* req->handle, length, notification; memcpy(req->value, &big_endian_val, 4);
CbPrepare ==
    /\ pc = "cb_prepare"
    /\ req' = [req EXCEPT !.value = BigEndianBytes(adc_val_1)]
    /\ pc' = "cb_att_set"
    /\ UNCHANGED <<stack, hwVars, rdVars, rtVars, init_timeout, hx_val,
                   consecutive_errors, adc_timer, adc_val_1, extVars, histVars>>

\* attmdb_att_set_value(SVC1_IDX_ADC_VAL_1_VAL, 4, 0, &big_endian_val);
CbAttSet ==
    /\ pc = "cb_att_set"
    /\ att_db' = BigEndianBytes(adc_val_1)
    /\ effects' = Append(effects, Ev("att_set", BigEndianBytes(adc_val_1)))
    /\ pc' = "cb_send"
    /\ UNCHANGED <<stack, hwVars, rdVars, rtVars, init_timeout, cbVars,
                   conn, pending, started, sent, cycleHist, adcBefore>>

CbSend_AndReschedule ==
    /\ pc = "cb_send"
    /\ sent' = Append(sent, req.value)
    /\ effects' = Append(effects, Ev("send", req.value))
    /\ req' = [req EXCEPT !.st = "sent"]
    /\ Reschedule
    /\ pc' = "cb_success_resched"
    /\ UNCHANGED <<stack, hwVars, rdVars, rtVars, init_timeout, hx_val,
                   consecutive_errors, adc_val_1, conn, started, att_db,
                   initCalled, lastCycle, errsBefore, connSeen, failRun, runInits,
                   sinceReset, adcBefore>>

\* KE_MSG_SEND(req);
CbSend ==
    /\ pc = "cb_send"
    /\ sent' = Append(sent, req.value)
    /\ effects' = Append(effects, Ev("send", req.value))
    /\ req' = [req EXCEPT !.st = "sent"]
    /\ pc' = "cb_success_resched"
    /\ UNCHANGED <<stack, hwVars, rdVars, rtVars, init_timeout, hx_val,
                   consecutive_errors, adc_timer, adc_val_1, conn, pending, started,
                   att_db, cycleHist, adcBefore>>

\* The success path's end: reschedule when connected, else
\* adc_timer = EASY_TIMER_INVALID_TIMER.
CbSuccessResched ==
    /\ pc = "cb_success_resched"
    /\ connSeen' = IF conn THEN "connected" ELSE "disconnected"
    /\ IF conn
       THEN Reschedule
       ELSE /\ adc_timer' = EASY_TIMER_INVALID_TIMER
            /\ UNCHANGED <<pending, nResched>>
    /\ pc' = "cb_ret"
    /\ UNCHANGED <<stack, hwVars, rdVars, rtVars, init_timeout, hx_val,
                   consecutive_errors, adc_val_1, req, conn, started, att_db, sent,
                   initCalled, lastCycle, errsBefore, failRun, runInits, sinceReset, cbHist>>

\* The callback returns to the kernel; what it recorded about this invocation
\* is dropped with its locals.
CbReturn ==
    /\ pc = "cb_ret"
    /\ pc' = "idle"
    /\ hx_val' = 0
    /\ req' = [st |-> "none", value |-> <<>>]
    /\ events' = <<>>
    /\ sent' = <<>>
    /\ nResched' = 0
    /\ initCalled' = FALSE
    /\ errsBefore' = 0
    /\ connSeen' = "unread"
    /\ effects' = <<>>
    /\ adcBefore' = 0
    /\ sinceReset' = IF initCalled THEN 0 ELSE sinceReset
    /\ UNCHANGED <<stack, hwVars, rdVars, max_retries, retry_count, result,
                   resultInit, init_timeout, consecutive_errors, adc_timer,
                   adc_val_1, conn, pending, started, att_db, lastCycle, failRun,
                   runInits>>

CallbackActions ==
    \/ CbAlloc \/ CbCallRetry \/ CbCheck \/ CbError \/ CbReset \/ CbFree
    \/ CbErrorResched \/ CbSuccess \/ CbPrepare \/ CbAttSet \/ CbSend
    \/ CbSuccessResched \/ CbReturn

(***************************************************************************)
(* Specifications.                                                         *)
(***************************************************************************)
Program ==
    \/ AppInit \/ AppInitDone
    \/ InitActions \/ ReadActions \/ RetryActions \/ CallbackActions
    \/ StartSampling \/ TimerFire

\* The firmware with its environment.
Next == Program \/ Disconnect \/ Connect

Spec == Init /\ [][Next]_vars

\* hx711_read_with_retry called directly.
NextRetry == HarnessCall \/ RetryActions \/ ReadActions

SpecRetry == InitRetry /\ [][NextRetry]_vars

\* The firmware while the connection stays up, with a processor that keeps
\* executing and a timer service that fires what is scheduled.
SpecConnected == Init /\ [][Program]_vars /\ WF_vars(Program)

(***************************************************************************)
(* Vocabulary of the properties.                                           *)
(***************************************************************************)
Sentinel(v) == v = INT32_MIN \/ v = INT32_MAX

IsRead(j) == events[j].e = "read"

\* Positions of the raw reads of the current hx711_read_with_retry call.
ReadIdx == {j \in 1..Len(events) : IsRead(j)}

CountOf(kind) == Cardinality({j \in 1..Len(events) : events[j].e = kind})

\* The results of the raw reads, in order.
ReadResults == SelectSeq(events, LAMBDA ev : ev.e = "read")

AllTimedOut == \A j \in ReadIdx : events[j].v = INT32_MIN

\* A power_down and a later power_up lie between positions lo and hi.
RecoveryWithin(lo, hi) ==
    \E a, b \in lo..hi :
        a < b /\ events[a].e = "power_down" /\ events[b].e = "power_up"

\* The raw read before position j (0: none, the call began).
PrevRead(j) ==
    IF \E r \in ReadIdx : r < j
    THEN CHOOSE r \in ReadIdx : r < j /\ \A q \in ReadIdx : q < j => q <= r
    ELSE 0

\* The raw read after position j (Len(events) + 1: none, the call ended).
NextRead(j) ==
    IF \E r \in ReadIdx : r > j
    THEN CHOOSE r \in ReadIdx : r > j /\ \A q \in ReadIdx : q > j => r <= q
    ELSE Len(events) + 1

\* Position of the j-th raw read.
ReadIdxAt(j) ==
    CHOOSE r \in ReadIdx : Cardinality({q \in ReadIdx : q <= r}) = j

\* hx711_read_with_retry has just returned to its direct caller.
RetryReturned == pc = "harness_done"

\* hx711_read_improved is about to return rd_ret.
ReadReturning == pc = "rd_ret"

\* The callback has done all its work and is about to return.
CallbackReturning == pc = "cb_ret"

(***************************************************************************)
(* C1                                                                      *)
(***************************************************************************)
\* C1 as stated: with max_retries = N >= 1 and every raw read timing out, the
\* call makes exactly N raw reads, every one of them preceded (since the
\* previous read, or since the call began) by a power-down/power-up pair, and
\* returns INT32_MIN.
C1_AsStated ==
    (RetryReturned /\ max_retries >= 1 /\ AllTimedOut) =>
        /\ Cardinality(ReadIdx) = max_retries
        /\ \A j \in ReadIdx : RecoveryWithin(PrevRead(j) + 1, j - 1)
        /\ hx_val = INT32_MIN

\* C1 amended: with max_retries = N >= 1 and every raw read timing out, the
\* call makes exactly N raw reads, every one of them FOLLOWED (before the next
\* read, or before the return) by a power-down/power-up pair, N pairs in all
\* and none before the first read, and returns INT32_MIN.
C1_RecoveryFollowsEachTimeout ==
    (RetryReturned /\ max_retries >= 1 /\ AllTimedOut) =>
        /\ Cardinality(ReadIdx) = max_retries
        /\ \A j \in ReadIdx : RecoveryWithin(j + 1, NextRead(j) - 1)
        /\ CountOf("power_down") = max_retries
        /\ CountOf("power_up") = max_retries
        /\ IsRead(1)
        /\ hx_val = INT32_MIN

C1_Witness ==
    /\ RetryReturned
    /\ max_retries = 3
    /\ AllTimedOut
    /\ Cardinality(ReadIdx) = 3
    /\ hx_val = INT32_MIN

(***************************************************************************)
(* C2                                                                      *)
(***************************************************************************)
\* C2: a raw read whose result is neither sentinel is the last thing the call
\* does: no power-down, power-up, delay or raw read follows it, the function
\* goes straight to its return, and the value returned is that read's result.
C2_ReturnsOnFirstValid ==
    \A j \in ReadIdx :
        ~Sentinel(events[j].v) =>
            /\ j = Len(events)
            /\ pc \in {"rt_check", "rt_ret", "harness_done"}
            /\ RetryReturned => hx_val = events[j].v

C2_Witness ==
    /\ RetryReturned
    /\ Len(events) = 1
    /\ IsRead(1)
    /\ events[1].v = -1
    /\ hx_val = -1

(***************************************************************************)
(* C3                                                                      *)
(***************************************************************************)
\* C3: for every k < max_retries, when the first k raw reads time out and raw
\* read k+1 yields a valid value v, the call returns v after exactly k+1 raw
\* reads and exactly k power-down/power-up cycles.
C3_ValidAfterTimeouts ==
    RetryReturned =>
        \A k \in 0..(max_retries - 1) :
            ( /\ Len(ReadResults) >= k + 1
              /\ \A j \in 1..k : ReadResults[j].v = INT32_MIN
              /\ ~Sentinel(ReadResults[k + 1].v) ) =>
                /\ hx_val = ReadResults[k + 1].v
                /\ Len(ReadResults) = k + 1
                /\ CountOf("power_down") = k
                /\ CountOf("power_up") = k
                /\ \A j \in 1..k :
                       RecoveryWithin(ReadIdxAt(j) + 1, ReadIdxAt(j + 1) - 1)

\* [Timeout, Timeout, 0x123456] with max_retries = 3 returns 0x00123456 after
\* two recovery cycles.
C3_Witness ==
    /\ RetryReturned
    /\ max_retries = 3
    /\ Len(ReadResults) = 3
    /\ ReadResults[1].v = INT32_MIN
    /\ ReadResults[2].v = INT32_MIN
    /\ ReadResults[3].v = 1193046
    /\ hx_val = 1193046
    /\ CountOf("power_down") = 2
    /\ CountOf("power_up") = 2

(***************************************************************************)
(* C4                                                                      *)
(***************************************************************************)
\* C4: while every poll of the ready-wait has found the data line high, the
\* raw read has produced no rising clock edge and the clock line is low; and
\* when it returns in that case, it returns exactly INT32_MIN.
C4_TimeoutClocksNothing ==
    (allHigh /\ pc \in {"rd_wait", "rd_timeout", "rd_bit_high", "rd_bit_low",
                        "rd_bit_sample", "rd_gain_high", "rd_gain_low",
                        "rd_verify", "rd_sign", "rd_ret"}) =>
        /\ pulses = 0
        /\ sck = 0
        /\ pc \in {"rd_wait", "rd_timeout", "rd_ret"}
        /\ ReadReturning => rd_ret = INT32_MIN

C4_Witness ==
    /\ ReadReturning
    /\ allHigh
    /\ timeout = 0
    /\ rd_ret = INT32_MIN
    /\ pulses = 0

(***************************************************************************)
(* C5                                                                      *)
(***************************************************************************)
\* C5: when the chip was ready and shifted out the 24-bit two's-complement
\* encoding of x, MSB first, the raw read returns exactly x.
C5_RoundTrip ==
    (ReadReturning /\ ~allHigh) => rd_ret = chipx

C5_Witness ==
    /\ ReadReturning
    /\ ~allHigh
    /\ chipx = -8388608
    /\ rd_ret = -8388608
    /\ pulses = 25

(***************************************************************************)
(* C6                                                                      *)
(***************************************************************************)
\* C6: once an invocation of the sampling callback whose read succeeded has
\* done its work, and until the next invocation, consecutive_errors is 0,
\* whatever it was when the invocation began.
C6_SuccessResetsCounter ==
    (pc \in {"cb_ret", "idle"} /\ lastCycle = "success") => consecutive_errors = 0

C6_Witness ==
    /\ CallbackReturning
    /\ lastCycle = "success"
    /\ errsBefore = 4
    /\ consecutive_errors = 0

(***************************************************************************)
(* C7                                                                      *)
(***************************************************************************)
\* C7: an invocation calls hx711_init exactly when its cycle failed and is the
\* 5th consecutive failed cycle since the last success or reinitialise; the
\* counter is then 0 again in the same invocation, it is in 0..4 whenever the
\* callback returns, and a run of n consecutive failures has caused exactly
\* n div 5 reinitialises.
C7_ReinitEveryFifthFailure ==
    /\ CallbackReturning =>
          /\ initCalled <=> (lastCycle = "failure" /\ sinceReset = 5)
          /\ initCalled => consecutive_errors = 0
          /\ lastCycle = "failure" => consecutive_errors = sinceReset % 5
    /\ pc \in {"cb_ret", "idle"} =>
          /\ consecutive_errors \in 0..4
          /\ failRun <= MaxFailRun => runInits = failRun \div 5

C7_Witness ==
    /\ CallbackReturning
    /\ initCalled
    /\ failRun = 10
    /\ runInits = 2
    /\ consecutive_errors = 0

(***************************************************************************)
(* C8                                                                      *)
(***************************************************************************)
\* C8: an invocation that found the connection not connected when it finished
\* its cycle has not rescheduled itself and leaves adc_timer equal to
\* EASY_TIMER_INVALID_TIMER, whether the read succeeded or failed.
C8_DisconnectedInvalidatesTimer ==
    (CallbackReturning /\ connSeen = "disconnected") =>
        /\ nResched = 0
        /\ adc_timer = EASY_TIMER_INVALID_TIMER

(***************************************************************************)
(* C9                                                                      *)
(***************************************************************************)
\* An invocation of the callback is in progress.
CallbackActive == started /\ pc # "idle" /\ lastCycle # "none"

\* C9: at most one future callback is pending at any time; while an invocation
\* runs, none is pending until that invocation reschedules, which it does at
\* most once and only as its last piece of work (nothing but the return
\* follows), so no invocation can begin before the previous one is over.
C9_SingleCallback ==
    /\ pending <= 1
    /\ nResched <= 1
    /\ CallbackActive => pending = nResched
    /\ nResched = 1 => CallbackReturning

C9_Witness ==
    /\ CallbackReturning
    /\ nResched = 1
    /\ pending = 1
    /\ lastCycle = "failure"
    /\ initCalled
    /\ CountOf("power_up") = 3

(***************************************************************************)
(* C10                                                                     *)
(***************************************************************************)
\* C10: while the connection stays up, every invocation, successful, failed or
\* reinitialising, ends having rescheduled exactly one next invocation, and
\* the callback is entered again and again for ever.
C10_SamplingNeverStops ==
    /\ [](CallbackReturning => (nResched = 1 /\ pending = 1))
    /\ []<>(pc = "cb_alloc")

C10_Witness ==
    /\ CallbackReturning
    /\ conn
    /\ nResched = 1
    /\ lastCycle = "failure"
    /\ initCalled
    /\ failRun = 5

(***************************************************************************)
(* C11                                                                     *)
(***************************************************************************)
InSampleRange(v) == -8388608 <= v /\ v <= 8388607

C13_ReturnsLastRead ==
    RetryReturned =>
        /\ Len(ReadResults) >= 1
        /\ hx_val = ReadResults[Len(ReadResults)].v

(***************************************************************************)
(* C14                                                                     *)
(***************************************************************************)
\* Bit n of the two's-complement pattern of v.
BitOf(v, n) == (v \div (2^n)) % 2

\* C14: a raw read that found the chip ready has produced exactly 25 rising
\* and 25 falling clock edges when it returns, 24 data pulses and the
\* gain-select pulse; it samples the data line once per data pulse, with the
\* clock low again after that pulse's rising edge; sample number k (from 0)
\* is bit 23-k of the result, whatever the data line did at the final check.
C14_TwentyFivePulses ==
    /\ pc = "rd_bit_sample" =>
          /\ sck = 0
          /\ pulses = i + 1
          /\ Len(samples) = i
    /\ (ReadReturning /\ ~allHigh) =>
          /\ pulses = 25
          /\ sck = 0
          /\ Len(samples) = 24
          /\ \A k \in 0..23 : BitOf(rd_ret, 23 - k) = samples[k + 1]

C14_Witness ==
    /\ ReadReturning
    /\ ~allHigh
    /\ pulses = 25
    /\ Len(samples) = 24
    /\ commWarn
    /\ rd_ret = 1193046

(***************************************************************************)
(* C16                                                                     *)
(***************************************************************************)
\* The kinds of the events from position lo to position hi.
KindsBetween(lo, hi) == [k \in 1..(hi - lo + 1) |-> events[lo + k - 1].e]

\* C16: between two consecutive raw reads of one hx711_read_with_retry call
\* there is exactly one 10 ms delay, and after a timeout what lies between
\* them is, in this order: power down (clock driven high), the 1 ms wait,
\* power up (clock driven low), the 10 ms delay.
C16_RecoveryOrder ==
    \A j \in ReadIdx :
        NextRead(j) <= Len(events) =>
            /\ Cardinality({q \in (j + 1)..(NextRead(j) - 1) :
                               events[q].e = "delay_10ms"}) = 1
            /\ events[j].v = INT32_MIN =>
                  /\ KindsBetween(j + 1, NextRead(j) - 1)
                        = <<"power_down", "wait_1ms", "power_up", "delay_10ms">>
                  /\ events[j + 1].v = 1
                  /\ events[j + 3].v = 0

C16_Witness ==
    /\ Len(events) = 6
    /\ IsRead(1)
    /\ IsRead(6)
    /\ events[1].v = INT32_MIN
    /\ events[6].v = -1

(***************************************************************************)
(* C12                                                                     *)
(***************************************************************************)
EffectsOf(kind) == SelectSeq(effects, LAMBDA ev : ev.e = kind)

\* The signed 32-bit value four bytes denote, most significant byte first.
FromBigEndian(b) ==
    (IF b[1] >= 128 THEN b[1] - 256 ELSE b[1]) * 16777216
      + b[2] * 65536 + b[3] * 256 + b[4]

\* C12: when an invocation whose read failed has done its work, it has sent no
\* notification, has not written the attribute store, and adc_val_1 is what it
\* was when the invocation began; when one whose read succeeded with v has
\* done its work, adc_val_1 is v and there has been exactly one attribute-store
\* write and exactly one notification, both carrying v big-endian.
C12_EffectsOfACycle ==
    CallbackReturning =>
        /\ lastCycle = "failure" =>
              /\ EffectsOf("send") = <<>>
              /\ sent = <<>>
              /\ EffectsOf("att_set") = <<>>
              /\ adc_val_1 = adcBefore
        /\ lastCycle = "success" =>
              /\ adc_val_1 = hx_val
              /\ Len(EffectsOf("att_set")) = 1
              /\ Len(EffectsOf("send")) = 1
              /\ Len(sent) = 1
              /\ FromBigEndian(EffectsOf("att_set")[1].v) = hx_val
              /\ FromBigEndian(EffectsOf("send")[1].v) = hx_val
              /\ FromBigEndian(att_db) = hx_val

C12_Witness ==
    /\ CallbackReturning
    /\ lastCycle = "success"
    /\ hx_val = 1193046
    /\ adcBefore = -1
    /\ sent = << <<0, 18, 52, 86>> >>
    /\ att_db = <<0, 18, 52, 86>>

(***************************************************************************)
(* C15                                                                     *)
(***************************************************************************)
InRawRead ==
    pc \in {"rd_wait", "rd_timeout", "rd_bit_high", "rd_bit_low", "rd_bit_sample",
            "rd_gain_high", "rd_gain_low", "rd_verify", "rd_sign", "rd_ret"}

\* C15: a ready-wait of the raw read that sees the data line high at every
\* sample makes exactly HX711_TIMEOUT_COUNT decrement-and-wait iterations and
\* the read returns INT32_MIN; one low sample, the one after the last
\* iteration included, ends the wait without a timeout and the read clocks
\* its 25 pulses; hx711_init's wait makes at most HX711_TIMEOUT_COUNT
\* iterations, exactly that many when the line stays high, and returns.
C15_PollBudget ==
    /\ InRawRead =>
          /\ waits <= HX711_TIMEOUT_COUNT
          /\ waits + timeout = HX711_TIMEOUT_COUNT
          /\ (allHigh /\ pc \in {"rd_timeout", "rd_ret"}) => waits = HX711_TIMEOUT_COUNT
          /\ (allHigh /\ ReadReturning) => rd_ret = INT32_MIN
          /\ ~allHigh => pc \notin {"rd_wait", "rd_timeout"}
          /\ (~allHigh /\ ReadReturning) => (rd_ret # INT32_MIN /\ pulses = 25)
    /\ pc \in {"init_wait", "init_ret"} =>
          /\ waits <= HX711_TIMEOUT_COUNT
          /\ waits + init_timeout = HX711_TIMEOUT_COUNT
          /\ (allHigh /\ pc = "init_ret") => waits = HX711_TIMEOUT_COUNT

\* The data line goes low only at the sample after the last wait iteration.
C15_Witness ==
    /\ ReadReturning
    /\ ~allHigh
    /\ waits = HX711_TIMEOUT_COUNT
    /\ pulses = 25
    /\ rd_ret = -1

(***************************************************************************)
(* C17                                                                     *)
(***************************************************************************)
\* The last power_down or power_up among the events, "none" without any.
LastPowerEvent ==
    LET idx == {j \in 1..Len(events) : events[j].e \in {"power_down", "power_up"}}
    IN  IF idx = {} THEN "none"
        ELSE events[CHOOSE j \in idx : \A q \in idx : q <= j].e

\* C17: the clock line is low whenever hx711_power_up, hx711_init,
\* hx711_read_improved, hx711_read_with_retry or the callback returns, and
\* between cycles; when hx711_read_with_retry returns every power-down it
\* issued has been followed by a power-up.
C17_ClockLowAtReturn ==
    /\ pc \in {"rt_next", "init_wait", "init_ret", "rd_ret", "rt_ret", "cb_check",
               "cb_ret", "idle", "boot_done"} => sck = 0
    /\ pc \in {"rt_ret", "cb_check", "cb_ret"} =>
          /\ LastPowerEvent # "power_down"
          /\ CountOf("power_down") = CountOf("power_up")

C17_Witness ==
    /\ CallbackReturning
    /\ CountOf("power_down") = 2
    /\ CountOf("power_up") = 2
    /\ lastCycle = "success"
    /\ sck = 0

(***************************************************************************)
(* C18                                                                     *)
(***************************************************************************)
\* C18: when an invocation has done its work it has allocated exactly one
\* message and disposed of it exactly once: freed and not sent when the read
\* failed, sent and not freed when it succeeded.
C18_MessageDisposedOnce ==
    CallbackReturning =>
        /\ Len(EffectsOf("alloc")) = 1
        /\ effects[1].e = "alloc"
        /\ Len(EffectsOf("free")) + Len(EffectsOf("send")) = 1
        /\ lastCycle = "failure" =>
              (Len(EffectsOf("free")) = 1 /\ req.st = "freed")
        /\ lastCycle = "success" =>
              (Len(EffectsOf("send")) = 1 /\ req.st = "sent")

C18_Witness ==
    /\ CallbackReturning
    /\ lastCycle = "failure"
    /\ initCalled
    /\ req.st = "freed"
    /\ Len(EffectsOf("free")) = 1

(***************************************************************************)
(* C19                                                                     *)
(***************************************************************************)
\* C19: every call of the callback, of hx711_read_improved and of hx711_init
\* is followed by the processor being idle again, so the call and every call
\* around it has returned, whatever the data line does; a call of
\* hx711_read_with_retry makes at most max_retries raw reads, and an
\* invocation of the callback at most 3 raw reads, 3 power-cycle recoveries
\* and 1 reinitialise.
C19_CycleTerminates ==
    /\ [](/\ Cardinality(ReadIdx) <= max_retries
          /\ Cardinality(ReadIdx) <= 3
          /\ CountOf("power_down") <= 3
          /\ CountOf("power_up") <= 3
          /\ Len(EffectsOf("init")) <= 1)
    /\ (pc \in {"cb_alloc", "rd_entry", "init_entry"}) ~> (pc = "idle")

C19_Witness ==
    /\ CallbackReturning
    /\ Cardinality(ReadIdx) = 3
    /\ CountOf("power_down") = 3
    /\ Len(EffectsOf("init")) = 1
    /\ failRun = 5
    /\ nResched = 1

=============================================================================
